---- MODULE Spec2Model ----
(***************************************************************************)
(* Amortization engine of the financing simulator (src/app.py).            *)
(*                                                                         *)
(* The script computes a schedule twice: a baseline call of                *)
(* calculate_schedule without extra payments (line 73) and a second call   *)
(* with the user's extra-payments dictionary (line 94).                    *)
(*                                                                         *)
(* Arithmetic is exact.  The periodic rate is the fraction r / RateDen.    *)
(* Every amount is an integer number of units of 0.005 / Scale currency,   *)
(* Scale = RateDen^MaxTerm, so that `balance * rate` stays an integer for  *)
(* MaxTerm consecutive periods (see InterestExact).  Inputs are entered in *)
(* steps of 0.005 (= Scale units), so the 0.01 cut-off of the loop is      *)
(* 2 * Scale units and amounts on both sides of it are reached.            *)
(***************************************************************************)
EXTENDS Integers, Sequences, FiniteSets, TLC

MaxTerm == 3        \* installments ranges over 1..MaxTerm
MaxPrincipal == 9   \* principal ranges over 0..MaxPrincipal steps of 0.005
MaxPmt == 4         \* caller-supplied installment: -1..MaxPmt steps
MaxExtra == 4       \* requested extra payment: 0..MaxExtra steps
MaxRateNum == 1     \* rate numerators 0..MaxRateNum
RateDen == 2        \* rate denominator

Scale == RateDen ^ MaxTerm
PmtGrain == RateDen ^ (MaxTerm - 1)
Eps == 2 * Scale    \* the literal 0.01 of `if balance <= 0.01`

VARIABLES principal, r, installments, pmt, extra_dict,
          pc, balance, cum_interest, fixed_pmt, month, schedule,
          extra_payments_dict, baseline_schedule, final_schedule

vars == <<principal, r, installments, pmt, extra_dict,
          pc, balance, cum_interest, fixed_pmt, month, schedule,
          extra_payments_dict, baseline_schedule, final_schedule>>

globals == <<principal, r, installments, extra_dict>>
locals == <<balance, cum_interest, fixed_pmt, month, schedule, extra_payments_dict>>

(* ---- the standard installment, lines 19-22 ---- *)
AnnuityNum(p, rate, n) == p * rate * (RateDen + rate) ^ n
AnnuityDen(rate, n) == RateDen * ((RateDen + rate) ^ n - RateDen ^ n)
StandardPmt(p, rate, n) ==
    IF rate > 0 THEN AnnuityNum(p, rate, n) \div AnnuityDen(rate, n)
                ELSE p \div n
\* the quotient above is exact and on the installment grid
StandardPmtExact(p, rate, n) ==
    IF rate > 0 THEN AnnuityNum(p, rate, n) % (AnnuityDen(rate, n) * PmtGrain) = 0
                ELSE p % (n * PmtGrain) = 0

(* ---- the steps of the loop body, lines 36-68 ---- *)
LoopContinuesShort(m, n, bal) == m < n /\ bal > Eps
LoopContinuesNoEps(m, n, bal) == m <= n /\ bal > 0
LoopContinues(m, n, bal) == m <= n /\ bal > Eps

InterestPercent(bal, rate) == bal * rate
InterestOf(bal, rate) == (bal * rate) \div RateDen

DictGet(d, m) == IF m \in DOMAIN d THEN d[m] ELSE 0

RegularPrincipalNoClamp(fp, interest, bal) == fp - interest
RegularPrincipal(fp, interest, bal) ==
    IF fp - interest > bal THEN bal ELSE fp - interest

BilledInstallmentStale(fp, interest, bal) == fp
BilledInstallment(fp, interest, bal) ==
    IF fp - interest > bal THEN bal + interest ELSE fp

AppliedExtraNoClamp(regular, extra, bal) == extra
AppliedExtra(regular, extra, bal) ==
    IF regular + extra > bal THEN bal - regular ELSE extra

TotalPrincipalPaidNoClamp(regular, extra, bal) == regular + extra
TotalPrincipalPaidSign(regular, extra, bal) ==
    IF regular - extra > bal THEN bal ELSE regular - extra
TotalPrincipalPaid(regular, extra, bal) ==
    IF regular + extra > bal THEN bal ELSE regular + extra

CumInterestOverwrite(cum, interest) == interest
CumInterest(cum, interest) == cum + interest

Max0(x) == IF 0 > x THEN 0 ELSE x

\* fixed_pmt is a parameter: rebinding it in the callee leaves the caller's pmt
CallerPmtShared(caller, callee) == callee
CallerPmtAfterCall(caller, callee) == caller

Min(a, b) == IF a < b THEN a ELSE b

(* ---- inputs ---- *)
PmtInputs(p, rate, n) ==
    {k * Scale : k \in (-1)..MaxPmt}
      \cup (IF StandardPmtExact(p, rate, n) THEN {StandardPmt(p, rate, n)} ELSE {})

Init ==
    /\ principal \in {k * Scale : k \in 0..MaxPrincipal}
    /\ r \in 0..MaxRateNum
    /\ installments \in 1..MaxTerm
    /\ pmt \in PmtInputs(principal, r, installments)
    /\ extra_dict \in [1..installments -> {k * Scale : k \in 0..MaxExtra}]
    /\ pc = "line73"
    /\ balance = 0
    /\ cum_interest = 0
    /\ fixed_pmt = 0
    /\ month = 1
    /\ schedule = <<>>
    /\ extra_payments_dict = <<>>
    /\ baseline_schedule = <<>>
    /\ final_schedule = <<>>

\* lines 28-34: entry of calculate_schedule
Enter(fp, d) ==
    /\ schedule' = <<>>
    /\ balance' = principal
    /\ cum_interest' = 0
    /\ fixed_pmt' = fp
    /\ month' = 1
    /\ extra_payments_dict' = d

\* line 73: calculate_schedule(principal, r, pmt, installments)
CallBaseline ==
    /\ pc = "line73"
    /\ Enter(pmt, <<>>)
    /\ pc' = "baseline"
    /\ UNCHANGED <<globals, pmt, baseline_schedule, final_schedule>>

\* one iteration of the for loop, lines 36-68
Iterate ==
    /\ pc \in {"baseline", "final"}
    /\ LoopContinues(month, installments, balance)
    /\ LET interest == InterestOf(balance, r)
           extra == DictGet(extra_payments_dict, month)
           regular_principal == RegularPrincipal(fixed_pmt, interest, balance)
           billed == BilledInstallment(fixed_pmt, interest, balance)
           applied == AppliedExtra(regular_principal, extra, balance)
           total_principal_paid == TotalPrincipalPaid(regular_principal, extra, balance)
           total_payment == billed + applied
       IN /\ fixed_pmt' = billed
          /\ balance' = balance - total_principal_paid
          /\ cum_interest' = CumInterest(cum_interest, interest)
          /\ schedule' = Append(schedule,
                [Month |-> month,
                 Installment |-> billed,
                 InterestPaid |-> interest,
                 PrincipalPaid |-> regular_principal,
                 ExtraAmortization |-> applied,
                 TotalPaidThisMonth |-> total_payment,
                 RemainingBalance |-> Max0(balance - total_principal_paid),
                 CumulativeInterest |-> CumInterest(cum_interest, interest)])
    /\ month' = month + 1
    /\ UNCHANGED <<globals, pmt, pc, extra_payments_dict, baseline_schedule, final_schedule>>

\* lines 36-38 and 70 of the first call: loop exit, result bound at line 73
ReturnBaseline ==
    /\ pc = "baseline"
    /\ ~LoopContinues(month, installments, balance)
    /\ baseline_schedule' = schedule
    /\ pmt' = CallerPmtAfterCall(pmt, fixed_pmt)
    /\ pc' = "line94"
    /\ UNCHANGED <<globals, locals, final_schedule>>

\* line 94: calculate_schedule(principal, r, pmt, installments, extra_dict)
CallFinal ==
    /\ pc = "line94"
    /\ Enter(pmt, extra_dict)
    /\ pc' = "final"
    /\ UNCHANGED <<globals, pmt, baseline_schedule, final_schedule>>

\* loop exit of the second call, result bound at line 94
ReturnFinal ==
    /\ pc = "final"
    /\ ~LoopContinues(month, installments, balance)
    /\ final_schedule' = schedule
    /\ pmt' = CallerPmtAfterCall(pmt, fixed_pmt)
    /\ pc' = "done"
    /\ UNCHANGED <<globals, locals, baseline_schedule>>

Next == CallBaseline \/ Iterate \/ ReturnBaseline \/ CallFinal \/ ReturnFinal

Spec == Init /\ [][Next]_vars

(* ---- soundness of the fixed-point encoding ---- *)
InterestExact ==
    (pc \in {"baseline", "final"} /\ LoopContinues(month, installments, balance))
        => (balance * r) % RateDen = 0

(* ---- reading the emitted rows ---- *)
\* balance entering period k, as the rows report it
Entering(s, k) == IF k = 1 THEN principal ELSE s[k - 1].RemainingBalance

RECURSIVE SumInterest(_, _)
SumInterest(s, k) == IF k = 0 THEN 0 ELSE s[k].InterestPaid + SumInterest(s, k - 1)

RECURSIVE SumPrincipal(_, _)
SumPrincipal(s, k) ==
    IF k = 0 THEN 0
    ELSE s[k].PrincipalPaid + s[k].ExtraAmortization + SumPrincipal(s, k - 1)

\* lines 123-129: rows are aligned by Month, a missing row reads as 0
BalanceAtPeriod(s, k) == IF k <= Len(s) THEN s[k].RemainingBalance ELSE 0

BaselineReturned == pc \in {"line94", "final", "done"}
FinalReturned == pc = "done"
NoExtras == \A m \in DOMAIN extra_dict : extra_dict[m] = 0
\* amount the dictionary of the running call holds for period k
Requested(k) ==
    IF k \in DOMAIN extra_payments_dict THEN extra_payments_dict[k] ELSE 0
CoversFirstInterest == pmt * RateDen >= principal * r

(* ---- C1 ---- *)
MonotonicBalance(s) ==
    \A k \in 1..Len(s) :
        /\ s[k].RemainingBalance >= 0
        /\ s[k].RemainingBalance <= Entering(s, k)

\* C1, as stated: for every input (any fixed installment) the Remaining
\* Balance never rises from one row to the next, the first row's is at most
\* principal, and it is never negative.
C1_Original == MonotonicBalance(schedule)

\* C1, amended: when the fixed installment is at least principal x rate (it
\* covers the first period's interest), the Remaining Balance never rises from
\* one row to the next, the first row's is at most principal, and it is never
\* negative.
C1_MonotonicBalance == CoversFirstInterest => MonotonicBalance(schedule)

C1_Witness ==
    /\ CoversFirstInterest
    /\ r > 0
    /\ pc = "final"
    /\ Len(schedule) >= 2
    /\ schedule[1].ExtraAmortization > 0
    /\ schedule[1].RemainingBalance < principal
    /\ schedule[2].RemainingBalance < schedule[1].RemainingBalance

(* ---- C2 ---- *)
\* C2: in every row Principal Paid + Extra Amortization is at most the balance
\* entering that period.
C2_NoOverpayment ==
    \A k \in 1..Len(schedule) :
        schedule[k].PrincipalPaid + schedule[k].ExtraAmortization
            <= Entering(schedule, k)

\* a row where the final-period clamp and the extra clamp both fired
C2_Witness ==
    /\ pc = "final"
    /\ \E k \in 1..Len(schedule) :
        /\ pmt - schedule[k].InterestPaid > Entering(schedule, k)
        /\ Requested(k) > schedule[k].ExtraAmortization
        /\ schedule[k].PrincipalPaid + schedule[k].ExtraAmortization
              = Entering(schedule, k)

(* ---- C3 ---- *)
\* C3: the run with extra payments has no more rows than the baseline run,
\* its total Interest Paid is no larger, and at every period its balance is
\* at most the baseline balance.
C3_EarlyPayoff ==
    FinalReturned =>
        /\ Len(final_schedule) <= Len(baseline_schedule)
        /\ SumInterest(final_schedule, Len(final_schedule))
              <= SumInterest(baseline_schedule, Len(baseline_schedule))
        /\ \A k \in 1..Len(baseline_schedule) :
              BalanceAtPeriod(final_schedule, k) <= baseline_schedule[k].RemainingBalance

C3_Witness ==
    /\ FinalReturned
    /\ r > 0
    /\ Len(final_schedule) >= 1
    /\ Len(final_schedule) < Len(baseline_schedule)
    /\ SumInterest(final_schedule, Len(final_schedule))
          < SumInterest(baseline_schedule, Len(baseline_schedule))

(* ---- C4 ---- *)
ExtraClampFires(s, k) ==
    s[k].PrincipalPaid + Requested(k) > Entering(s, k)

\* C4: the applied extra is min(requested, entering balance - regular
\* principal), between 0 and the requested amount; a row where the clamp fires
\* has balance 0 and is the last row, so the dropped excess is applied nowhere.
C4_ExtraClamp ==
    \A k \in 1..Len(schedule) :
        LET requested == Requested(k)
            row == schedule[k]
        IN /\ row.ExtraAmortization
                = Min(requested, Entering(schedule, k) - row.PrincipalPaid)
           /\ 0 <= row.ExtraAmortization
           /\ row.ExtraAmortization <= requested
           /\ ExtraClampFires(schedule, k) =>
                /\ row.RemainingBalance = 0
                /\ k = Len(schedule)
                /\ balance = 0

\* the scaled scenario: one row, regular principal kept, extra cut, balance 0
C4_Witness ==
    /\ FinalReturned
    /\ r = 0
    /\ installments >= 2
    /\ pmt * installments = principal
    /\ Len(final_schedule) = 1
    /\ extra_dict[1] >= principal
    /\ final_schedule[1].PrincipalPaid = pmt
    /\ final_schedule[1].ExtraAmortization = principal - pmt
    /\ final_schedule[1].ExtraAmortization > 0
    /\ final_schedule[1].RemainingBalance = 0

(* ---- C5 ---- *)
FinalClampFires(s, k) == pmt - s[k].InterestPaid > Entering(s, k)

\* C5: a row's Installment is the caller's fixed installment, except on a row
\* where the final-period clamp fires, where it is entering balance +
\* interest; such a row is the last one, so the reassigned fixed_pmt is never
\* billed in a later period.
C5_Installment ==
    /\ \A k \in 1..Len(schedule) :
          IF FinalClampFires(schedule, k)
          THEN /\ schedule[k].Installment
                    = Entering(schedule, k) + schedule[k].InterestPaid
               /\ k = Len(schedule)
          ELSE schedule[k].Installment = pmt
    /\ (pc \in {"baseline", "final"} /\ fixed_pmt # pmt)
          => balance = 0

C5_Witness ==
    /\ pc \in {"baseline", "final"}
    /\ Len(schedule) >= 2
    /\ FinalClampFires(schedule, Len(schedule))
    /\ schedule[Len(schedule)].Installment < pmt
    /\ schedule[1].Installment = pmt

(* ---- C6 ---- *)
StoppingRule(s) ==
    /\ Len(s) <= installments
    /\ \A k \in 1..Len(s) : s[k].Month = k /\ Entering(s, k) > Eps
    /\ Len(s) < installments => Entering(s, Len(s) + 1) <= Eps
    /\ principal = 0 => Len(s) = 0
    /\ (Len(s) >= 1 /\ s[Len(s)].RemainingBalance > Eps) => Len(s) = installments

\* C6: rows are numbered 1..k without gaps, k <= term, and a row for period m
\* exists exactly when m <= term and the balance entering m exceeds 0.01; so
\* principal 0 gives no rows and a schedule whose balance stays above 0.01
\* has exactly term rows.
C6_StoppingRule ==
    /\ BaselineReturned => StoppingRule(baseline_schedule)
    /\ FinalReturned => StoppingRule(final_schedule)

\* both outcomes: an early stop and a full run that leaves a balance
C6_Witness ==
    /\ FinalReturned
    /\ Len(final_schedule) >= 1
    /\ Len(final_schedule) < installments
    /\ Len(baseline_schedule) = installments
    /\ installments >= 2
    /\ baseline_schedule[installments].RemainingBalance > Eps

(* ---- C7 ---- *)
ZeroRateRows(s) ==
    /\ Len(s) = installments
    /\ \A k \in 1..Len(s) :
          /\ s[k].InterestPaid = 0
          /\ s[k].PrincipalPaid = pmt
          /\ s[k].Installment = pmt
          /\ s[k].RemainingBalance = principal - k * pmt
    /\ s[installments].RemainingBalance = 0

ZeroRateCase == r = 0 /\ principal > 0 /\ pmt * installments = principal

\* C7, as stated: rate 0, principal > 0 and installment = principal / term
\* give exactly term rows without extras, each with interest 0 and regular
\* principal = installment, the balance falling by the installment to 0.
C7_Original == (BaselineReturned /\ ZeroRateCase) => ZeroRateRows(baseline_schedule)

\* C7, amended: the same, provided principal / term is greater than 0.01.
C7_ZeroRate ==
    (BaselineReturned /\ ZeroRateCase /\ pmt > Eps) => ZeroRateRows(baseline_schedule)

C7_Witness ==
    /\ BaselineReturned
    /\ ZeroRateCase
    /\ pmt > Eps
    /\ installments >= 3
    /\ Len(baseline_schedule) = installments
    /\ baseline_schedule[1].RemainingBalance = principal - pmt

C9_Interest ==
    \A k \in 1..Len(schedule) :
        /\ schedule[k].InterestPaid * RateDen = Entering(schedule, k) * r
        /\ schedule[k].CumulativeInterest = SumInterest(schedule, k)
        /\ k > 1 => schedule[k].CumulativeInterest >= schedule[k - 1].CumulativeInterest

C9_Witness ==
    /\ r > 0
    /\ Len(schedule) >= 2
    /\ schedule[2].InterestPaid > 0
    /\ schedule[2].InterestPaid # schedule[1].InterestPaid
    /\ schedule[2].CumulativeInterest > schedule[1].CumulativeInterest

(* ---- C10 ---- *)
\* C10: after every row, principal minus the principal and extra paid so far
\* is the row's Remaining Balance, the running balance is never negative (the
\* floor at 0 changes nothing), Installment = Interest Paid + Principal Paid
\* and Total Paid This Month = Installment + Extra Amortization.
C10_Conservation ==
    /\ balance >= 0
    /\ \A k \in 1..Len(schedule) :
          /\ principal - SumPrincipal(schedule, k) = schedule[k].RemainingBalance
          /\ schedule[k].Installment
                = schedule[k].InterestPaid + schedule[k].PrincipalPaid
          /\ schedule[k].TotalPaidThisMonth
                = schedule[k].Installment + schedule[k].ExtraAmortization

C10_Witness ==
    /\ pc = "final"
    /\ r > 0
    /\ Len(schedule) >= 2
    /\ schedule[1].ExtraAmortization > 0
    /\ schedule[1].PrincipalPaid > 0
    /\ FinalClampFires(schedule, 2)
    /\ schedule[2].RemainingBalance = 0

====
